---- MODULE Spec2Model ----
(***************************************************************************)
(* A model of cdist.exec.remote.Remote (the Remote Executor) and of the    *)
(* helpers of cdist.exec.util it uses.                                      *)
(*                                                                          *)
(* Text.  A Python str is a sequence of symbols.  A symbol is either one    *)
(* shell-significant character (" ", "'", ";", "&", ">", "*", "[", "]")     *)
(* or a non-empty word made only of characters that the shell-quoting      *)
(* library never quotes ("mkdir", "-p", "/", "=", "0" ...).  Concatenation, *)
(* quoting and splitting act on symbols exactly as they act on the          *)
(* characters the symbols stand for.                                        *)
(*                                                                          *)
(* Control flow.  Every method of Remote is synchronous and blocking, so    *)
(* one call is one action.  A call is evaluated by operators that thread a  *)
(* machine record m = [ev, sink, tars] through the statements of the        *)
(* method: ev is the sequence of observable events of the call (sink        *)
(* opened, child process launched, sink logged, sink closed, archive        *)
(* built, local file removed), sink the content of the append-mode sink     *)
(* files, tars the local archive files that exist.  A statement result is   *)
(* [m, exc, val]: exc is the exception that propagates (NoExc when none).   *)
(***************************************************************************)
EXTENDS Integers, Sequences, FiniteSets, TLC

VARIABLES remote, environ, sinkfile, tarfiles, call, events, result

vars == <<remote, environ, sinkfile, tarfiles, call, events, result>>

None == "None"

(***************************************************************************)
(* cdist.util.shquot (not part of the sources at hand): POSIX shell         *)
(* quoting as the specification describes the collaborator.                 *)
(***************************************************************************)
Unsafe == {" ", "'", ";", "&", ">", "*", "[", "]", "\""}

RECURSIVE Flatten(_)
\* "".join(ss), by halves
Flatten(ss) ==
    IF ss = <<>> THEN <<>>
    ELSE IF Len(ss) = 1 THEN ss[1]
    ELSE LET half == Len(ss) \div 2
         IN Flatten(SubSeq(ss, 1, half)) \o Flatten(SubSeq(ss, half + 1, Len(ss)))

RECURSIVE JoinWith(_, _)
\* sep.join(ss), by halves
JoinWith(sep, ss) ==
    IF ss = <<>> THEN <<>>
    ELSE IF Len(ss) = 1 THEN ss[1]
    ELSE LET half == Len(ss) \div 2
         IN JoinWith(sep, SubSeq(ss, 1, half)) \o sep
            \o JoinWith(sep, SubSeq(ss, half + 1, Len(ss)))

quote(s) ==
    IF s = <<>> THEN <<"'", "'">>
    ELSE IF \A i \in 1..Len(s) : s[i] \notin Unsafe THEN s
    ELSE <<"'">>
         \o Flatten([i \in 1..Len(s) |->
                IF s[i] = "'" THEN <<"'", "\"", "'", "\"", "'">> ELSE <<s[i]>>])
         \o <<"'">>

join(argv) ==
    JoinWith(<<" ">>, [i \in 1..Len(argv) |-> quote(argv[i])])

\* split reads s one symbol at a time in a mode: "" outside quotes, "'" or
\* "\"" inside.  split_step is the mode after reading symbol c in mode.
split_step(mode, c) ==
    IF mode = "" THEN (IF c \in {"'", "\""} THEN c ELSE "")
    ELSE IF c = mode THEN "" ELSE mode

RECURSIVE split_modes(_, _, _, _)
\* the modes in which the symbols lo..hi of s are read, by halves
split_modes(s, lo, hi, mode) ==
    IF lo > hi THEN <<>>
    ELSE IF lo = hi THEN <<mode>>
    ELSE LET mid == (lo + hi) \div 2
             left == split_modes(s, lo, mid, mode)
         IN left \o split_modes(s, mid + 1, hi, split_step(left[Len(left)], s[mid]))

\* the k-th smallest element of a set of numbers
Nth(S, k) == CHOOSE i \in S : Cardinality({j \in S : j <= i}) = k

\* shquot.split: words are separated by unquoted spaces, quote characters
\* delimit and are dropped, a pair of quotes alone is an empty word
split(s) ==
    LET modes == split_modes(s, 1, Len(s), "")
        sep == {i \in 1..Len(s) : modes[i] = "" /\ s[i] = " "}
        lit == {i \in 1..Len(s) : i \notin sep /\ split_step(modes[i], s[i]) = modes[i]}
        starts == {i \in 1..Len(s) : i \notin sep /\ (i = 1 \/ (i - 1) \in sep)}
        word(a) ==
            LET ends == {j \in sep : j > a}
                b == IF ends = {} THEN Len(s) ELSE Nth(ends, 1) - 1
                L == {j \in a..b : j \in lit}
            IN [m \in 1..Cardinality(L) |-> s[Nth(L, m)]]
    IN [k \in 1..Cardinality(starts) |-> word(Nth(starts, k))]

(***************************************************************************)
(* os.path and number formatting, as Python computes them.                  *)
(***************************************************************************)
path_join(a, b) ==
    IF b # <<>> /\ b[1] = "/" THEN b
    ELSE IF a = <<>> \/ a[Len(a)] = "/" THEN a \o b
    ELSE a \o <<"/">> \o b

RECURSIVE rstrip_slash(_)
rstrip_slash(p) ==
    IF p # <<>> /\ p[Len(p)] = "/" THEN rstrip_slash(SubSeq(p, 1, Len(p) - 1))
    ELSE p

LastSlash(p) ==
    IF \E i \in 1..Len(p) : p[i] = "/"
    THEN CHOOSE i \in 1..Len(p) : p[i] = "/" /\ \A j \in (i + 1)..Len(p) : p[j] # "/"
    ELSE 0

\* os.path.dirname: the head up to the last slash, trailing slashes removed
\* unless the head consists of slashes only
dirname(p) ==
    LET head == SubSeq(p, 1, LastSlash(p))
    IN IF rstrip_slash(head) = <<>> THEN head ELSE rstrip_slash(head)

basename(p) == SubSeq(p, LastSlash(p) + 1, Len(p))

OctDigit == <<"0", "1", "2", "3", "4", "5", "6", "7">>

\* the number of octal digits of n
OctLen(n) == CHOOSE k \in 1..(n + 1) : n < 8^k /\ (k = 1 \/ n >= 8^(k - 1))

\* "%o" % n
Oct(n) ==
    [i \in 1..OctLen(n) |-> OctDigit[((n \div 8^(OctLen(n) - i)) % 8) + 1]]

PadLeft(s, w) ==
    IF Len(s) >= w THEN s ELSE [i \in 1..(w - Len(s)) |-> "0"] \o s

\* "%04o" % n
Oct04(n) == PadLeft(Oct(n), 4)

\* bit i of a & ~b
Keep(a, b, i) == ((a \div 2^i) % 2) * (1 - ((b \div 2^i) % 2))

RECURSIVE AndNot(_, _)
\* a & ~b for non-negative a, b, three bits at a time
AndNot(a, b) ==
    IF a = 0 THEN 0
    ELSE Keep(a, b, 0) + 2 * Keep(a, b, 1) + 4 * Keep(a, b, 2)
         + 8 * AndNot(a \div 8, b \div 8)

(***************************************************************************)
(* Statement results and exceptions.                                        *)
(***************************************************************************)
NoExc == [type |-> "none"]

NoVal == [some |-> FALSE, v |-> <<>>]

R(m, exc, val) == [m |-> m, exc |-> exc, val |-> val]

Raised(r) == r.exc.type # "none"

Emit(m, e) == [m EXCEPT !.ev = Append(@, e)]

\* the child-process oracle of a call: child number `at` of the call ends
\* as `kind` and writes out / err; every other child exits 0 in silence
OkOracle == [at |-> 0, kind |-> "exit0", out |-> <<>>, err |-> <<>>]

\* a file handle is named by the path it was opened on; NoFile is Python's None
NoFile == <<>>

IsText(bytes) == \A i \in 1..Len(bytes) : bytes[i] # "x"

(***************************************************************************)
(* cdist.exec.util                                                          *)
(***************************************************************************)
\* open(os.path.join(base_path, name), 'ba+'); fails says whether the
\* operating system refuses to open the file
get_std_fd(base_path, name, fails, m) ==
    LET path == path_join(base_path, name)
    IN IF fails THEN R(m, [type |-> "OSError", nargs |-> 2], NoVal)
       ELSE R(Emit(m, [ev |-> "open", fd |-> path]), NoExc,
              [some |-> TRUE, v |-> path])

\* stdfd.seek(0, 0); log.trace(..., stdfd.read().decode())
log_std_fd(command, stdfd, prefix, m) ==
    IF stdfd = NoFile THEN R(m, NoExc, NoVal)
    ELSE IF ~IsText(m.sink[stdfd])
         THEN R(m, [type |-> "UnicodeDecodeError"], NoVal)
    ELSE R(Emit(m, [ev |-> "log", prefix |-> prefix, command |-> command,
                    text |-> m.sink[stdfd]]), NoExc, NoVal)

RECURSIVE fromkeys(_, _)
\* OrderedDict.fromkeys(keys): the keys are inserted one after the other, a
\* key that is already present keeps its place; acc is the dict so far
fromkeys(keys, acc) ==
    IF keys = <<>> THEN acc
    ELSE fromkeys(Tail(keys),
                  IF \E i \in 1..Len(acc) : acc[i] = Head(keys)
                  THEN acc ELSE Append(acc, Head(keys)))

\* resolve_conf_dirs keeping every element at its last occurrence
resolve_conf_dirs_last(args) ==
    LET chain == Flatten(args)
        lasts == {i \in 1..Len(chain) : \A j \in (i + 1)..Len(chain) : chain[j] # chain[i]}
    IN [k \in 1..Cardinality(lasts) |-> chain[Nth(lasts, k)]]

\* list(OrderedDict.fromkeys(itertools.chain.from_iterable(args)))
resolve_conf_dirs(args) == fromkeys(Flatten(args), <<>>)

(***************************************************************************)
(* cdist.exec.remote                                                        *)
(***************************************************************************)
\* cdist.util.ipaddr.is_ipv6 (not part of the sources at hand)
IPv6Literals == {<<"2001:db8::7">>, <<"::1">>}

is_ipv6(addr) == addr \in IPv6Literals

_wrap_addr(addr) ==
    IF is_ipv6(addr) THEN <<"[">> \o addr \o <<"]">> ELSE addr

\* subprocess.check_output / subprocess.check_call of the try block: the
\* child is launched with os.environ plus the three __target_* variables
subprocess_check(self, command, return_output, stdin, stdout, stderr, oc, m) ==
    LET os_environ == [remote_exec |-> environ,
                       target_host |-> self.target_host[1],
                       target_hostname |-> self.target_host[2],
                       target_fqdn |-> self.target_host[3]]
        m1 == Emit(m, [ev |-> "popen", argv |-> command, env |-> os_environ,
                       stdin |-> stdin,
                       stdout |-> IF return_output THEN <<"PIPE">> ELSE stdout,
                       stderr |-> stderr, oc |-> oc.kind])
        wrOut == IF return_output THEN m1.sink
                 ELSE [m1.sink EXCEPT ![stdout] = @ \o oc.out]
        m2 == [m1 EXCEPT !.sink = [wrOut EXCEPT ![stderr] = @ \o oc.err]]
    IN CASE oc.kind = "oserr0" -> R(m1, [type |-> "OSError", nargs |-> 0], NoVal)
         [] oc.kind = "oserr1" -> R(m1, [type |-> "OSError", nargs |-> 1], NoVal)
         [] oc.kind = "oserr2" -> R(m1, [type |-> "OSError", nargs |-> 2], NoVal)
         [] oc.kind = "exit1" ->
                R(m2, [type |-> "CalledProcessError", nargs |-> 2], NoVal)
         [] OTHER ->
                IF ~return_output THEN R(m2, NoExc, NoVal)
                ELSE IF ~IsText(oc.out)
                     THEN R(m2, [type |-> "UnicodeDecodeError"], NoVal)
                ELSE R(m2, NoExc, [some |-> TRUE, v |-> oc.out])

\* try_block logging the stdout sink before the stderr sink
try_block_stdout_first(self, command, return_output, stdin, stdout, stderr, oc, m) ==
    LET r1 == subprocess_check(self, command, return_output, stdin,
                               stdout, stderr, oc, m)
        r2 == log_std_fd(command, stdout, <<"Remote stdout">>, r1.m)
        r3 == log_std_fd(command, stderr, <<"Remote stderr">>, r2.m)
    IN IF Raised(r1) THEN r1
       ELSE IF Raised(r2) THEN r2
       ELSE IF Raised(r3) THEN r3
       ELSE R(r3.m, NoExc, r1.val)

\* the try block: the child, then the two log_std_fd calls, stderr first
try_block(self, command, return_output, stdin, stdout, stderr, oc, m) ==
    LET r1 == subprocess_check(self, command, return_output, stdin,
                               stdout, stderr, oc, m)
        r2 == log_std_fd(command, stderr, <<"Remote stderr">>, r1.m)
        r3 == log_std_fd(command, stdout, <<"Remote stdout">>, r2.m)
    IN IF Raised(r1) THEN r1
       ELSE IF Raised(r2) THEN r2
       ELSE IF Raised(r3) THEN r3
       ELSE R(r3.m, NoExc, r1.val)

\* the except clauses
except_clauses(command, r) ==
    IF r.exc.type \in {"OSError", "CalledProcessError"} THEN
        IF r.exc.nargs = 0
        THEN R(r.m, [type |-> "Error", msg |-> join(command)], NoVal)
        ELSE IF r.exc.nargs < 2
        THEN R(r.m, [type |-> "IndexError"], NoVal)
        ELSE R(r.m, [type |-> "Error",
                     msg |-> join(command) \o <<":", " ">> \o
                             (IF r.exc.type = "OSError" THEN <<"strerror">>
                              ELSE <<"str(cmd)">>)], NoVal)
    ELSE IF r.exc.type = "UnicodeDecodeError"
    THEN R(r.m, [type |-> "DecodeError", command |-> command], NoVal)
    ELSE r

\* the finally clause
finally_clause(close_stdout_afterwards, close_stderr_afterwards, stdout, stderr, r) ==
    LET m1 == IF close_stdout_afterwards
              THEN Emit(r.m, [ev |-> "close", fd |-> stdout]) ELSE r.m
        m2 == IF close_stderr_afterwards
              THEN Emit(m1, [ev |-> "close", fd |-> stderr]) ELSE m1
    IN [r EXCEPT !.m = m2]

_run_command(self, command, return_output, stdin, stdout, stderr, orc, m) ==
    LET k == m.n + 1
        oc == IF orc.at = k THEN orc ELSE OkOracle
        m0 == [m EXCEPT !.n = k]
        close_stdout_afterwards == ~return_output /\ stdout = NoFile
        close_stderr_afterwards == stderr = NoFile
        rOut == IF close_stdout_afterwards
                THEN get_std_fd(self.stdout_base_path, <<"remote">>,
                                oc.kind = "nostdout", m0)
                ELSE R(m0, NoExc, [some |-> TRUE, v |-> stdout])
        rErr == IF close_stderr_afterwards
                THEN get_std_fd(self.stderr_base_path, <<"remote">>,
                                oc.kind = "nostderr", rOut.m)
                ELSE R(rOut.m, NoExc, [some |-> TRUE, v |-> stderr])
    IN IF Raised(rOut) THEN rOut
       ELSE IF Raised(rErr) THEN rErr
       ELSE finally_clause(close_stdout_afterwards, close_stderr_afterwards,
                rOut.val.v, rErr.val.v,
                except_clauses(command,
                    try_block(self, command, return_output, stdin,
                              rOut.val.v, rErr.val.v, oc, rErr.m)))

\* a command is a list of arguments or a str; an env is None or a dict, kept
\* as the sequence of its items
ListCmd(argv) == [islist |-> TRUE, v |-> argv]

StrCmd(s) == [islist |-> FALSE, v |-> s]

NoEnv == [none |-> TRUE, items |-> <<>>]

\* remote_env quoting every value, the empty ones too
remote_env_quote_all(env) ==
    <<"export", " ">>
    \o JoinWith(<<" ">>, [i \in 1..Len(env.items) |->
            env.items[i][1] \o <<"=">> \o quote(env.items[i][2])])
    \o <<";", " ">>

remote_env(env) ==
    <<"export", " ">>
    \o JoinWith(<<" ">>, [i \in 1..Len(env.items) |->
            env.items[i][1] \o <<"=">> \o
            (IF env.items[i][2] # <<>> THEN quote(env.items[i][2]) ELSE <<>>)])
    \o <<";", " ">>

\* run_cmd with the prefix taken from the process-wide __remote_exec
run_cmd_process_wide(self, command, env) ==
    LET cmd == split(environ) \o <<self.target_host[1]>>
        text == IF command.islist THEN join(command.v) ELSE command.v
    IN IF ~env.none /\ env.items # <<>>
       THEN Append(cmd, <<"/bin/sh", " ", "-c", " ">> \o quote(remote_env(env) \o text))
       ELSE Append(cmd, text)

\* run_cmd joining the arguments of a list without quoting them
run_cmd_unquoted(self, command, env) ==
    LET cmd == self.exec \o <<self.target_host[1]>>
        text == IF command.islist THEN JoinWith(<<" ">>, command.v) ELSE command.v
    IN IF ~env.none /\ env.items # <<>>
       THEN Append(cmd, <<"/bin/sh", " ", "-c", " ">> \o quote(remote_env(env) \o text))
       ELSE Append(cmd, text)

\* the argument vector run builds
run_cmd(self, command, env) ==
    LET cmd == self.exec \o <<self.target_host[1]>>
        text == IF command.islist THEN join(command.v) ELSE command.v
    IN IF ~env.none /\ env.items # <<>>
       THEN Append(cmd, <<"/bin/sh", " ", "-c", " ">> \o quote(remote_env(env) \o text))
       ELSE Append(cmd, text)

run(self, command, env, return_output, stdin, stdout, stderr, orc, m) ==
    _run_command(self, run_cmd(self, command, env), return_output,
                 stdin, stdout, stderr, orc, m)

run_script(self, script, env, return_output, stdout, stderr, orc, m) ==
    run(self, ListCmd(<<<<"exec">>, self.remote_shell, <<"-e">>, script>>),
        env, return_output, NoFile, stdout, stderr, orc, m)

rmfile(self, path, orc, m) ==
    run(self, ListCmd(<<<<"rm">>, <<"-f">>, path>>), NoEnv, FALSE,
        NoFile, NoFile, NoFile, orc, m)

rmdir(self, path, orc, m) ==
    run(self, ListCmd(<<<<"rm">>, <<"-r">>, <<"-f">>, path>>), NoEnv, FALSE,
        NoFile, NoFile, NoFile, orc, m)

\* umask=None
NoUmask == -1

FullMode == 511

\* "umask %04o; %s && chmod %o %s" % (umask, cmd, mode, quoted path)
umask_wrap(umask, cmd, mode, path) ==
    <<"umask", " ">> \o Oct04(umask) \o <<";", " ">> \o cmd
    \o <<" ", "&", "&", " ", "chmod", " ">> \o Oct(mode) \o <<" ">> \o quote(path)

\* mkdir_cmd with a chmod mode from which no bit is cleared
mkdir_cmd_full_mode(path, umask) ==
    LET cmd == <<"mkdir", " ", "-p", " ">> \o quote(path)
    IN IF umask # NoUmask
       THEN umask_wrap(umask, cmd, FullMode, path)
       ELSE cmd

mkdir_cmd(path, umask) ==
    LET cmd == <<"mkdir", " ", "-p", " ">> \o quote(path)
    IN IF umask # NoUmask
       THEN umask_wrap(umask, cmd, AndNot(FullMode, umask), path)
       ELSE cmd

mkdir(self, path, umask, orc, m) ==
    run(self, StrCmd(mkdir_cmd(path, umask)), NoEnv, FALSE,
        NoFile, NoFile, NoFile, orc, m)

NoMode == [name |-> "None", extract_opts |-> <<>>]

extract_archive(self, path, mode, orc, m) ==
    LET command == <<<<"tar">>, <<"-x">>, <<"-f">>, path, <<"-C">>, dirname(path)>>
    IN run(self,
           ListCmd(IF mode.name # "None" THEN command \o mode.extract_opts
                   ELSE command),
           NoEnv, FALSE, NoFile, NoFile, NoFile, orc, m)

(***************************************************************************)
(* The local source of a transfer: [path, kind, tree, order].  tree maps    *)
(* the relative path of every entry below a directory source (a sequence    *)
(* of names) to [kind, mode]; order is the order in which the operating     *)
(* system lists names.                                                      *)
(***************************************************************************)
IsHidden(name) == name # <<>> /\ name[1] = "."

\* os.listdir of the directory rel of src, in the system's order
listdir(src, rel) ==
    SelectSeq(src.order,
              LAMBDA name : Append(rel, name) \in DOMAIN src.tree)

\* glob.glob1(dirname, "*"): the listing without the hidden names
glob1(src, rel) ==
    SelectSeq(listdir(src, rel), LAMBDA name : ~IsHidden(name))

\* the local path of the entry rel of src
RECURSIVE local_path(_, _)
local_path(src, rel) ==
    IF rel = <<>> THEN src.path
    ELSE path_join(local_path(src, SubSeq(rel, 1, Len(rel) - 1)), rel[Len(rel)])

\* stat.S_IMODE(os.stat(source).st_mode)
st_mode(src, rel) == IF rel = <<>> THEN src.mode ELSE src.tree[rel].mode

\* _transfer_file_cmd that leaves the umask out
_transfer_file_cmd_no_umask(src, rel, destination, umask) ==
    <<"cat", " ", ">">> \o quote(destination)

_transfer_file_cmd(src, rel, destination, umask) ==
    LET remote_cmd == <<"cat", " ", ">">> \o quote(destination)
    IN IF umask # NoUmask
       THEN umask_wrap(umask, remote_cmd, AndNot(st_mode(src, rel), umask),
                       destination)
       ELSE remote_cmd

_transfer_file(self, src, rel, destination, umask, orc, m) ==
    _run_command(self,
        self.exec \o <<self.target_host[1],
                       _transfer_file_cmd(src, rel, destination, umask)>>,
        FALSE, local_path(src, rel), NoFile, NoFile, orc, m)

RECURSIVE _transfer_dir(_, _, _, _, _, _, _)
RECURSIVE _transfer_dir_loop(_, _, _, _, _, _, _, _)
\* the for loop of _transfer_dir over the names still to visit
_transfer_dir_loop(self, src, rel, destination, names, umask, orc, m) ==
    IF names = <<>> THEN R(m, NoExc, NoVal)
    ELSE LET path == Head(names)
             src_rel == Append(rel, path)
             dst_path == path_join(destination, path)
             r == IF src.tree[src_rel].kind = "dir"
                  THEN LET r1 == mkdir(self, dst_path, umask, orc, m)
                       IN IF Raised(r1) THEN r1
                          ELSE _transfer_dir(self, src, src_rel, dst_path,
                                             umask, orc, r1.m)
                  ELSE _transfer_file(self, src, src_rel, dst_path, umask, orc, m)
         IN IF Raised(r) THEN r
            ELSE _transfer_dir_loop(self, src, rel, destination, Tail(names),
                                    umask, orc, r.m)

_transfer_dir(self, src, rel, destination, umask, orc, m) ==
    _transfer_dir_loop(self, src, rel, destination, glob1(src, rel), umask, orc, m)

\* cdist.autil.tar (not part of the sources at hand): tarres is what the
\* archive builder answers, NoFile when it declines or the path of the
\* archive it wrote
autil_tar(src, tarres, m) ==
    IF tarres = NoFile THEN R(m, NoExc, [some |-> FALSE, v |-> NoFile])
    ELSE R(Emit([m EXCEPT !.tars = @ \cup {tarres}],
                [ev |-> "tar", source |-> src.path, tarpath |-> tarres]),
           NoExc, [some |-> TRUE, v |-> tarres])

\* os_remove leaving the file in place
os_remove_skipped(path, m) ==
    R(Emit(m, [ev |-> "os.remove", path |-> path]), NoExc, NoVal)

os_remove(path, m) ==
    R(Emit([m EXCEPT !.tars = @ \ {path}], [ev |-> "os.remove", path |-> path]),
      NoExc, NoVal)

\* transfer_archive that leaves the archive on the target
transfer_archive_no_rmfile(self, tarpath, destination, orc, m) ==
    LET tarname == basename(tarpath)
        desttarpath == path_join(destination, tarname)
        tarsrc == [path |-> tarpath, kind |-> "file", mode |-> 384,
                   tree |-> <<>>, order |-> <<>>]
        r1 == _transfer_file(self, tarsrc, <<>>, desttarpath, NoUmask, orc, m)
        r2 == extract_archive(self, desttarpath, self.archiving_mode, orc, r1.m)
    IN IF Raised(r1) THEN r1
       ELSE IF Raised(r2) THEN r2
       ELSE os_remove(tarpath, r2.m)

\* the branch of transfer taken when the archive builder returned tarpath
transfer_archive(self, tarpath, destination, orc, m) ==
    LET tarname == basename(tarpath)
        desttarpath == path_join(destination, tarname)
        tarsrc == [path |-> tarpath, kind |-> "file", mode |-> 384,
                   tree |-> <<>>, order |-> <<>>]
        r1 == _transfer_file(self, tarsrc, <<>>, desttarpath, NoUmask, orc, m)
        r2 == extract_archive(self, desttarpath, self.archiving_mode, orc, r1.m)
        r3 == rmfile(self, desttarpath, orc, r2.m)
    IN IF Raised(r1) THEN r1
       ELSE IF Raised(r2) THEN r2
       ELSE IF Raised(r3) THEN r3
       ELSE os_remove(tarpath, r3.m)

\* jobs_requested that never sees a request
jobs_requested_never(jobs) == FALSE

\* elif jobs:
jobs_requested(jobs) == jobs # 0

transfer(self, src, destination, jobs, umask, tarres, orc, m) ==
    IF src.kind = "dir" THEN
        LET r1 == mkdir(self, destination, umask, orc, m)
            r2 == IF self.archiving_mode.name # "None"
                  THEN autil_tar(src, tarres, r1.m)
                  ELSE R(r1.m, NoExc, [some |-> FALSE, v |-> NoFile])
            r3 == IF r2.val.some
                  THEN transfer_archive(self, r2.val.v, destination, orc, r2.m)
                  ELSE r2
            used_archiving == r2.val.some
        IN IF Raised(r1) THEN r1
           ELSE IF Raised(r3) THEN r3
           ELSE IF ~used_archiving
           THEN _transfer_dir(self, src, <<>>, destination, umask, orc, r3.m)
           ELSE R(r3.m, NoExc, NoVal)
    ELSE IF jobs_requested(jobs)
    THEN R(m, [type |-> "Error",
               msg |-> <<"Source", " ">> \o src.path
                       \o <<" ", "is", " ", "not", " ", "a", " ", "directory">>],
           NoVal)
    ELSE _transfer_file(self, src, <<>>, destination, umask, orc, m)

BaseUmask == 63

\* create_files_dirs going on when the removal of the base directory failed
create_files_dirs_lenient(self, orc, m) ==
    LET r1 == rmdir(self, self.base_path, orc, m)
        r2 == mkdir(self, self.base_path, BaseUmask, orc, r1.m)
    IN IF Raised(r2) THEN r2
       ELSE mkdir(self, self.conf_path, NoUmask, orc, r2.m)

\* create_files_dirs that keeps what the base directory holds
create_files_dirs_keep(self, orc, m) ==
    LET r2 == mkdir(self, self.base_path, BaseUmask, orc, m)
    IN IF Raised(r2) THEN r2
       ELSE mkdir(self, self.conf_path, NoUmask, orc, r2.m)

create_files_dirs(self, orc, m) ==
    LET r1 == rmdir(self, self.base_path, orc, m)
        r2 == mkdir(self, self.base_path, BaseUmask, orc, r1.m)
    IN IF Raised(r1) THEN r1
       ELSE IF Raised(r2) THEN r2
       ELSE mkdir(self, self.conf_path, NoUmask, orc, r2.m)

remove_files_dirs(self, orc, m) == rmdir(self, self.base_path, orc, m)

\* Remote.__init__ with _init_env: the object and the value it stores in
\* os.environ['__remote_exec']
Remote(target_host, remote_exec, base_path, settings, stdout_base_path, stderr_base_path) ==
    [target_host |-> target_host,
     exec |-> split(remote_exec),
     archiving_mode |-> settings.archiving_mode,
     remote_shell |-> settings.remote_shell,
     base_path |-> base_path,
     stdout_base_path |-> stdout_base_path,
     stderr_base_path |-> stderr_base_path,
     conf_path |-> path_join(base_path, <<"conf">>),
     object_path |-> path_join(base_path, <<"object">>),
     type_path |-> path_join(path_join(base_path, <<"conf">>), <<"type">>),
     global_explorer_path |->
         path_join(path_join(base_path, <<"conf">>), <<"explorer">>)]

_init_env(self) == join(self.exec)

(***************************************************************************)
(* The inputs the calls are explored with.                                  *)
(***************************************************************************)
MaxEntries == 2

MaxSinkLen == 2

MaxTars == 2

MaxArgLen == 2

MaxUmask == 511

MaxLists == 2

MaxDirs == 2

Ids == {1, 2}

HostName == <<<<"web1">>, <<"web1">>, <<"web1.example.com">>>>

HostV4 == <<<<"192.0.2.7">>, <<"web2">>, <<"web2.example.com">>>>

HostV6 == <<<<"2001:db8::7">>, <<"web3">>, <<"web3.example.com">>>>

ModeTgz == [name |-> "tgz", extract_opts |-> <<<<"-z">>>>]

ModeTar == [name |-> "tar", extract_opts |-> <<>>]

Settings(mode) == [archiving_mode |-> mode, remote_shell |-> <<"/bin/sh">>]

BasePath == <<"/", "var", "/", "cdist">>

StdoutBase == <<"/", "log", "/", "out">>

StderrBase == <<"/", "log", "/", "err">>

Configs ==
    {Remote(HostName, <<"ssh", " ", "-o", " ", "'", "User", "=", "root", "'">>,
            BasePath, Settings(NoMode), StdoutBase, StderrBase),
     Remote(HostV6, <<"rsh">>, BasePath, Settings(ModeTgz), StdoutBase, StderrBase),
     Remote(HostV4, <<"ssh", " ", "-q">>, BasePath, Settings(ModeTar),
            StdoutBase, StderrBase)}

CallerStdout == <<"caller stdout">>

CallerStderr == <<"caller stderr">>

SinkFiles ==
    {path_join(StdoutBase, <<"remote">>), path_join(StderrBase, <<"remote">>),
     CallerStdout, CallerStderr}

StdPairs == {<<NoFile, NoFile>>, <<CallerStdout, CallerStderr>>, <<NoFile, CallerStderr>>}

Commands ==
    {ListCmd(<<<<"ls">>, <<"/", "etc">>>>),
     ListCmd(<<<<"echo">>, <<"it", "'", "s">>, <<"a", " ", "b">>, <<>>>>),
     StrCmd(<<"ls", " ", "/", "etc", "/", "*">>)}

Envs ==
    {NoEnv,
     [none |-> FALSE, items |-> <<>>],
     [none |-> FALSE, items |-> <<<<<<"A">>, <<"1">>>>, <<<<"B">>, <<>>>>>>],
     [none |-> FALSE, items |-> <<<<<<"P">>, <<"a", " ", "'", "b">>>>>>]}

Scripts == {<<"/", "var", "/", "cdist", "/", "code-remote">>, <<"/", "tmp", "/", "my", " ", "script">>}

RemotePaths == {<<"/", "dst">>, <<"/", "my", " ", "dir", "/">>}

Umasks == {NoUmask, 18, 63}

JobCounts == {0, 4}

FailKinds == {"exit1", "oserr0", "oserr1", "oserr2", "nostdout", "nostderr"}

\* oracles under which no child writes to a sink
SilentOracles(maxAt) ==
    {OkOracle} \cup
    {[at |-> k, kind |-> f, out |-> <<>>, err |-> <<>>] :
        k \in 1..maxAt, f \in FailKinds}

\* oracles of a child whose stdout is captured for return_output
PipeOracles ==
    {[at |-> 1, kind |-> "exit0", out |-> o, err |-> <<>>] : o \in {<<"t">>, <<"x">>}}

Names == {<<"a">>, <<"d">>, <<".", "h">>}

ListingOrders == {<<<<"a">>, <<"d">>, <<".", "h">>>>, <<<<".", "h">>, <<"d">>, <<"a">>>>}

Rels == {<<n>> : n \in Names} \cup {<<n1, n2>> : n1 \in Names, n2 \in Names}

Parent(rel) == SubSeq(rel, 1, Len(rel) - 1)

Entry(rel, kind) ==
    [kind |-> kind,
     mode |-> IF kind = "dir" THEN 493 ELSE IF rel[Len(rel)] = <<"a">> THEN 420 ELSE 448]

\* every directory tree of at most MaxEntries entries, two levels deep
Trees ==
    UNION {{[rel \in D |-> Entry(rel, k[rel])] :
                k \in {k \in [D -> {"file", "dir"}] :
                          \A rel \in D : Len(rel) = 2 => k[Parent(rel)] = "dir"}} :
           D \in {D \in SUBSET Rels :
                     /\ Cardinality(D) <= MaxEntries
                     /\ \A rel \in D : Len(rel) = 2 => Parent(rel) \in D}}

SourcePath == <<"/", "src">>

FileSource ==
    [path |-> SourcePath, kind |-> "file", mode |-> 420, tree |-> <<>>,
     order |-> <<>>]

DirSources ==
    {[path |-> SourcePath, kind |-> "dir", mode |-> 493, tree |-> t, order |-> o] :
        t \in Trees, o \in ListingOrders}

\* the local archive files the archive builder may write
TarPaths == {<<"/", "tmp", "/", "cdist">> \o Oct(i) \o <<".tar.gz">> : i \in 1..MaxTars}

(***************************************************************************)
(* The state machine: one action per call.                                  *)
(***************************************************************************)
M0 == [ev |-> <<>>, sink |-> sinkfile, tars |-> tarfiles, n |-> 0]

SinkBounded(m) == \A f \in SinkFiles : Len(m.sink[f]) <= MaxSinkLen

\* the call c ended as r; its oracle names a child the call launched or the
\* next one it would have launched (an oracle for a later child repeats the
\* run in which every child succeeds)
Done(c, r) ==
    /\ c.orc.at <= r.m.n + 1
    /\ SinkBounded(r.m)
    /\ call' = c
    /\ events' = r.m.ev
    /\ result' = [exc |-> r.exc, val |-> r.val]
    /\ sinkfile' = r.m.sink
    /\ tarfiles' = r.m.tars
    /\ UNCHANGED <<remote, environ>>

NoCall == [op |-> "none", e |-> 0]

NoResult == [exc |-> NoExc, val |-> NoVal]

\* every call blocks its caller: a call starts when none is under way
Idle == call.op = "none"

Init ==
    /\ remote = <<>>
    /\ environ = <<>>
    /\ sinkfile = [f \in SinkFiles |-> <<>>]
    /\ tarfiles = {}
    /\ call = NoCall
    /\ events = <<>>
    /\ result = NoResult

\* the caller has taken the outcome of the last call and may call again
Return ==
    /\ ~Idle
    /\ call' = NoCall
    /\ events' = <<>>
    /\ result' = NoResult
    /\ UNCHANGED <<remote, environ, sinkfile, tarfiles>>

\* Remote(...) is constructed and kept as Executor e
Construct(configs) ==
    /\ Idle
    /\ \E e \in Ids \ DOMAIN remote, self \in configs :
          /\ remote' = (e :> self) @@ remote
          /\ environ' = _init_env(self)
          /\ call' = [op |-> "__init__", e |-> e]
          /\ events' = <<>>
          /\ result' = NoResult
          /\ UNCHANGED <<sinkfile, tarfiles>>

\* oracles[return_output] are the ways the child process may end
Run(commands, envs, stds, oracles) ==
    /\ Idle
    /\ \E e \in DOMAIN remote, command \in commands, env \in envs,
          return_output \in BOOLEAN, std \in stds :
          \E orc \in oracles[return_output] :
             Done([op |-> "run", e |-> e, command |-> command, env |-> env,
                   return_output |-> return_output, stdout |-> std[1],
                   stderr |-> std[2], orc |-> orc],
                  run(remote[e], command, env, return_output, NoFile,
                      std[1], std[2], orc, M0))

RunScript(scripts, envs, stds, oracles) ==
    /\ Idle
    /\ \E e \in DOMAIN remote, script \in scripts, env \in envs,
          return_output \in BOOLEAN, std \in stds :
          \E orc \in oracles[return_output] :
             Done([op |-> "run_script", e |-> e, script |-> script, env |-> env,
                   return_output |-> return_output, stdout |-> std[1],
                   stderr |-> std[2], orc |-> orc],
                  run_script(remote[e], script, env, return_output,
                             std[1], std[2], orc, M0))

Mkdir(paths, umasks, oracles) ==
    /\ Idle
    /\ \E e \in DOMAIN remote, path \in paths, umask \in umasks, orc \in oracles :
          Done([op |-> "mkdir", e |-> e, path |-> path, umask |-> umask,
                orc |-> orc],
               mkdir(remote[e], path, umask, orc, M0))

Rmdir(paths, oracles) ==
    /\ Idle
    /\ \E e \in DOMAIN remote, path \in paths, orc \in oracles :
          Done([op |-> "rmdir", e |-> e, path |-> path, orc |-> orc],
               rmdir(remote[e], path, orc, M0))

Rmfile(paths, oracles) ==
    /\ Idle
    /\ \E e \in DOMAIN remote, path \in paths, orc \in oracles :
          Done([op |-> "rmfile", e |-> e, path |-> path, orc |-> orc],
               rmfile(remote[e], path, orc, M0))

ExtractArchive(paths, modes, oracles) ==
    /\ Idle
    /\ \E e \in DOMAIN remote, path \in paths, mode \in modes, orc \in oracles :
          Done([op |-> "extract_archive", e |-> e, path |-> path, mode |-> mode,
                orc |-> orc],
               extract_archive(remote[e], path, mode, orc, M0))

CreateFilesDirs(oracles) ==
    /\ Idle
    /\ \E e \in DOMAIN remote, orc \in oracles :
          Done([op |-> "create_files_dirs", e |-> e, orc |-> orc],
               create_files_dirs(remote[e], orc, M0))

RemoveFilesDirs(oracles) ==
    /\ Idle
    /\ \E e \in DOMAIN remote, orc \in oracles :
          Done([op |-> "remove_files_dirs", e |-> e, orc |-> orc],
               remove_files_dirs(remote[e], orc, M0))

TarPath(i) == <<"/", "tmp", "/", "cdist">> \o Oct(i) \o <<".tar.gz">>

\* the name tempfile.mkstemp gives the next archive: one that is not in use
FreshTar ==
    IF \E i \in 1..MaxTars : TarPath(i) \notin tarfiles
    THEN {TarPath(CHOOSE i \in 1..MaxTars :
                    /\ TarPath(i) \notin tarfiles
                    /\ \A j \in 1..(i - 1) : TarPath(j) \in tarfiles)}
    ELSE {}

\* what the archive builder may answer for Executor self: nothing when it is
\* not asked, else that it declines (NoFile) or the new archive it has written
TarAnswers(self, src) ==
    IF src.kind = "dir" /\ self.archiving_mode.name # "None"
    THEN {NoFile} \cup FreshTar
    ELSE {NoFile}

\* jobcounts[src] are the job counts the source is transferred with
Transfer(sources, destinations, jobcounts, umasks, oracles) ==
    /\ Idle
    /\ \E e \in DOMAIN remote, src \in sources, destination \in destinations,
          umask \in umasks, orc \in oracles :
          \E jobs \in jobcounts[src] :
          \E tarres \in TarAnswers(remote[e], src) :
             Done([op |-> "transfer", e |-> e, source |-> src,
                   destination |-> destination, jobs |-> jobs, umask |-> umask,
                   tarres |-> tarres, orc |-> orc],
                  transfer(remote[e], src, destination, jobs, umask, tarres,
                           orc, M0))

ArchivePaths == {<<"/", "dst", "/", "cdist1.tar.gz">>, <<"cdist1.tar.gz">>}

\* the sources the general specification transfers
SomeSources ==
    {FileSource} \cup
    {src \in DirSources :
        /\ src.order = <<<<"a">>, <<"d">>, <<".", "h">>>>
        /\ DOMAIN src.tree \in {{}, {<<<<"a">>>>, <<<<"d">>>>}}}

RunOracles ==
    [return_output \in BOOLEAN |->
        SilentOracles(1) \cup (IF return_output THEN PipeOracles ELSE {})]

QuietOracles == [return_output \in BOOLEAN |-> {OkOracle}]

AnyJobs == [src \in SomeSources |-> JobCounts]

\* both job counts for a file and for an empty directory, none for the rest
FewJobs ==
    [src \in {FileSource} \cup DirSources |->
        IF src.kind = "file" \/ DOMAIN src.tree = {} THEN JobCounts ELSE {0}]

Next ==
    \/ Construct(Configs)
    \/ Run(Commands, Envs, StdPairs, RunOracles)
    \/ RunScript(Scripts, Envs, {<<NoFile, NoFile>>}, QuietOracles)
    \/ Mkdir(RemotePaths, Umasks, SilentOracles(1))
    \/ Rmdir(RemotePaths, SilentOracles(1))
    \/ Rmfile(RemotePaths, SilentOracles(1))
    \/ ExtractArchive(ArchivePaths, {NoMode, ModeTgz}, SilentOracles(1))
    \/ CreateFilesDirs(SilentOracles(3))
    \/ RemoveFilesDirs(SilentOracles(1))
    \/ Transfer(SomeSources, RemotePaths, AnyJobs, {NoUmask, 18}, SilentOracles(1))
    \/ Return

Spec == Init /\ [][Next]_vars

(***************************************************************************)
(* Transfers and the other calls that issue several remote commands, from   *)
(* a state with one Executor without and one with an archiving mode.        *)
(***************************************************************************)
PlainRemote ==
    Remote(HostName, <<"ssh", " ", "-q">>, BasePath, Settings(NoMode),
           StdoutBase, StderrBase)

BulkRemote ==
    Remote(HostV4, <<"rsh">>, BasePath, Settings(ModeTgz), StdoutBase, StderrBase)

InitTransfer ==
    /\ remote = (1 :> PlainRemote) @@ (2 :> BulkRemote)
    /\ environ = _init_env(BulkRemote)
    /\ sinkfile = [f \in SinkFiles |-> <<>>]
    /\ tarfiles = {}
    /\ call = NoCall
    /\ events = <<>>
    /\ result = NoResult

\* the most child processes one transfer of these sources launches
MaxChildren == IF MaxEntries + 1 > 4 THEN MaxEntries + 1 ELSE 4

TransferFailKinds == {"exit1", "oserr2", "nostderr"}

TransferOracles ==
    {OkOracle} \cup
    {[at |-> k, kind |-> f, out |-> <<>>, err |-> <<>>] :
        k \in 1..MaxChildren, f \in TransferFailKinds}

NextTransfer ==
    \/ Transfer({FileSource} \cup DirSources, RemotePaths, FewJobs,
                {NoUmask, 18}, TransferOracles)
    \/ CreateFilesDirs(TransferOracles)
    \/ Return

SpecTransfer == InitTransfer /\ [][NextTransfer]_vars

(***************************************************************************)
(* run on argument lists whose arguments are all the strings of at most     *)
(* MaxArgLen symbols, plain and shell-significant ones.                     *)
(***************************************************************************)
ArgSymbols == {"a", " ", "'", "\""}

Args == UNION {[1..k -> ArgSymbols] : k \in 0..MaxArgLen}

Argvs ==
    {<<x>> : x \in Args} \cup
    {<<x, y>> : x \in Args, y \in {<<>>, <<"it", "'", "s">>, <<"*">>}}

ArgvCommands == {ListCmd(argv) : argv \in Argvs}

NextQuote ==
    \/ Run(ArgvCommands, Envs, {<<CallerStdout, CallerStderr>>}, QuietOracles)
    \/ Return

SpecQuote == InitTransfer /\ [][NextQuote]_vars

(***************************************************************************)
(* run through the default sinks with children that write: "t" is a byte    *)
(* of text, "x" a byte that does not decode.                                *)
(***************************************************************************)
SinkBytes == {<<>>, <<"t">>, <<"x">>}

LoudOracles ==
    [return_output \in BOOLEAN |->
        SilentOracles(1) \cup
        {[at |-> 1, kind |-> k, out |-> o, err |-> e] :
            k \in {"exit0", "exit1"}, o \in SinkBytes, e \in SinkBytes}]

NextSink ==
    \/ Run({ListCmd(<<<<"ls">>>>)}, {NoEnv}, {<<NoFile, NoFile>>}, LoudOracles)
    \/ Return

SpecSink == InitTransfer /\ [][NextSink]_vars

(***************************************************************************)
(* mkdir and the stream of one file under every umask up to MaxUmask.       *)
(***************************************************************************)
AllUmasks == {NoUmask} \cup 0..MaxUmask

FileModes == {0, 420, 493, 2541, 4095}

ModeSources == {[FileSource EXCEPT !.mode = mode] : mode \in FileModes}

NextUmask ==
    \/ Mkdir(RemotePaths, AllUmasks, {OkOracle})
    \/ Transfer(ModeSources, RemotePaths, [src \in ModeSources |-> {0}],
                AllUmasks, {OkOracle})
    \/ Return

SpecUmask == InitTransfer /\ [][NextUmask]_vars

(***************************************************************************)
(* resolve_conf_dirs on at most MaxLists lists of at most MaxDirs            *)
(* directories each.                                                        *)
(***************************************************************************)
ConfDirs == {<<"/", "a">>, <<"/", "b">>, <<"/", "b", "/">>}

DirLists == UNION {[1..k -> ConfDirs] : k \in 0..MaxDirs}

ConfDirArgs == UNION {[1..k -> DirLists] : k \in 0..MaxLists}

ResolveConfDirs(argss) ==
    /\ Idle
    /\ \E args \in argss :
          /\ call' = [op |-> "resolve_conf_dirs", e |-> 0, args |-> args]
          /\ result' = [exc |-> NoExc,
                        val |-> [some |-> TRUE, v |-> resolve_conf_dirs(args)]]
          /\ events' = <<>>
          /\ UNCHANGED <<remote, environ, sinkfile, tarfiles>>

NextConf ==
    \/ ResolveConfDirs(ConfDirArgs)
    \/ Return

SpecConf == Init /\ [][NextConf]_vars

(***************************************************************************)
(* What a call is observed to have done.                                    *)
(***************************************************************************)
IsCall == call.op \notin {"none", "__init__"}

Self == remote[call.e]

Last(seq) == seq[Len(seq)]

StartsWith(seq, prefix) ==
    Len(seq) >= Len(prefix) /\ SubSeq(seq, 1, Len(prefix)) = prefix

Contains(seq, part) ==
    \E i \in 1..(Len(seq) - Len(part) + 1) : SubSeq(seq, i, i + Len(part) - 1) = part

\* the child processes of the call, in the order of their launch
Popens == SelectSeq(events, LAMBDA x : x.ev = "popen")

\* those fed from a local file
Streams == SelectSeq(events, LAMBDA x : x.ev = "popen" /\ x.stdin # NoFile)

\* the child processes and the local archive operations of the call
Steps == SelectSeq(events, LAMBDA x : x.ev \in {"popen", "tar", "os.remove"})

Count(ev, fd) ==
    Cardinality({i \in 1..Len(events) : events[i].ev = ev /\ events[i].fd = fd})

\* the commands the call began: each opens the default stdout sink first
Begun ==
    Len(SelectSeq(events, LAMBDA x :
            x.ev = "open" /\ x.fd = path_join(Self.stdout_base_path, <<"remote">>)))

TarBuilt == \E i \in 1..Len(events) : events[i].ev = "tar"

FilesOf(src) == {rel \in DOMAIN src.tree : src.tree[rel].kind = "file"}

\* the remote path of the entry rel below destination
RECURSIVE remote_path(_, _)
remote_path(destination, rel) ==
    IF rel = <<>> THEN destination
    ELSE path_join(remote_path(destination, SubSeq(rel, 1, Len(rel) - 1)),
                   rel[Len(rel)])

(***************************************************************************)
(* The target's shell and filesystem, as far as the commands of rmdir,      *)
(* rmfile and mkdir use them.  A filesystem maps the paths that exist       *)
(* below the root to [kind, mode]; the shell answers [fs, status].          *)
(***************************************************************************)
\* the value of a string of octal digits
RECURSIVE OctVal(_)
OctVal(digits) ==
    IF digits = <<>> THEN 0
    ELSE 8 * OctVal(SubSeq(digits, 1, Len(digits) - 1))
         + (CHOOSE d \in 0..7 : OctDigit[d + 1] = digits[Len(digits)])

\* the directories above path, the root left out
Ancestors(path) ==
    {SubSeq(path, 1, i) : i \in {j \in 2..(Len(path) - 1) : path[j + 1] = "/"}}

Below(fs, path) ==
    {q \in DOMAIN fs : StartsWith(q, path \o <<"/">>)}

\* rm [-r] [-f] path
target_rm(fs, flags, path) ==
    IF path \notin DOMAIN fs
    THEN [fs |-> fs, status |-> IF <<"-f">> \in flags THEN 0 ELSE 1]
    ELSE IF fs[path].kind = "dir" /\ <<"-r">> \notin flags
    THEN [fs |-> fs, status |-> 1]
    ELSE [fs |-> [q \in DOMAIN fs \ ({path} \cup Below(fs, path)) |-> fs[q]],
          status |-> 0]

\* mkdir -p path under the umask um: the missing directories are created,
\* the ones above path writable and searchable by the owner
target_mkdir_p(fs, um, path) ==
    LET dirs == Ancestors(path) \cup {path}
    IN IF \E d \in dirs : d \in DOMAIN fs /\ fs[d].kind # "dir"
       THEN [fs |-> fs, status |-> 1]
       ELSE [fs |-> [q \in DOMAIN fs \cup dirs |->
                        IF q \in DOMAIN fs THEN fs[q]
                        ELSE [kind |-> "dir",
                              mode |-> IF q = path THEN AndNot(FullMode, um)
                                       ELSE AndNot(FullMode, AndNot(um, 192))]],
             status |-> 0]

\* chmod mode path
target_chmod(fs, mode, path) ==
    IF path \notin DOMAIN fs THEN [fs |-> fs, status |-> 1]
    ELSE [fs |-> [fs EXCEPT ![path].mode = mode], status |-> 0]

\* one simple command, given as its words
target_command(fs, um, words) ==
    LET path == rstrip_slash(Last(words))
    IN IF words[1] = <<"rm">>
       THEN target_rm(fs, {words[i] : i \in 2..(Len(words) - 1)}, path)
       ELSE IF words[1] = <<"mkdir">> /\ words[2] = <<"-p">>
       THEN target_mkdir_p(fs, um, path)
       ELSE IF words[1] = <<"chmod">>
       THEN target_chmod(fs, OctVal(words[2]), path)
       ELSE [fs |-> fs, status |-> 127]

\* a list "first && second": second runs when first succeeded
target_and_list(fs, um, words) ==
    LET ands == {i \in 1..Len(words) : words[i] = <<"&", "&">>}
    IN IF ands = {} THEN target_command(fs, um, words)
       ELSE LET k == CHOOSE i \in ands : \A j \in ands : i <= j
                first == target_command(fs, um, SubSeq(words, 1, k - 1))
            IN IF first.status # 0 THEN first
               ELSE target_command(first.fs, um, SubSeq(words, k + 1, Len(words)))

\* sh -c line on the target, whose login umask is um
target_sh(fs, um, line) ==
    LET words == split(line)
    IN IF words[1] = <<"umask">> /\ Last(words[2]) = ";"
       THEN target_and_list(fs, OctVal(SubSeq(words[2], 1, Len(words[2]) - 1)),
                            SubSeq(words, 3, Len(words)))
       ELSE target_and_list(fs, um, words)

\* the lines in turn, up to the first that fails
RECURSIVE target_run(_, _, _)
target_run(fs, um, lines) ==
    IF lines = <<>> THEN [fs |-> fs, status |-> 0]
    ELSE LET r == target_sh(fs, um, Head(lines))
         IN IF r.status # 0 THEN r ELSE target_run(r.fs, um, Tail(lines))

(***************************************************************************)
(* C1: in every child-process invocation of a call, the argument after the  *)
(* template tokens is the target address, in brackets when the address is   *)
(* an IPv6 literal and unchanged otherwise.                                  *)
(***************************************************************************)
C1_AddressBracketedWhenIPv6 ==
    IsCall =>
        \A i \in 1..Len(Popens) :
            LET addr == Self.target_host[1]
            IN Popens[i].argv[Len(Self.exec) + 1] =
                   (IF is_ipv6(addr) THEN <<"[">> \o addr \o <<"]">> ELSE addr)

(***************************************************************************)
(* C2: every argument vector an Executor hands to the child-process          *)
(* primitive is its own template tokens, then its own target address, then   *)
(* exactly one remote command string, whatever other Executors exist.        *)
(***************************************************************************)
C2_OwnTemplateAndAddress ==
    IsCall =>
        \A i \in 1..Len(Popens) :
            LET argv == Popens[i].argv
                n == Len(Self.exec)
            IN /\ Len(argv) = n + 2
               /\ SubSeq(argv, 1, n) = Self.exec
               /\ argv[n + 1] = Self.target_host[1]

\* a file is streamed by an Executor while the process-wide __remote_exec
\* holds the template of another Executor with another address
C2_Witness ==
    /\ call.op = "transfer"
    /\ Len(Streams) = 1
    /\ \E o \in DOMAIN remote :
          /\ remote[o].exec # Self.exec
          /\ remote[o].target_host[1] # Self.target_host[1]
          /\ environ = join(remote[o].exec)

(***************************************************************************)
(* C3: transfer of a source that is not a directory, with jobs requested,   *)
(* raises the contract-violation error; no child process is launched and    *)
(* neither the sinks nor the local archive files change.                     *)
(***************************************************************************)
C3_JobsOnFileRaisesUntouched ==
    [][(/\ Idle
        /\ call'.op = "transfer"
        /\ call'.source.kind # "dir"
        /\ call'.jobs # 0)
       => (/\ result'.exc.type = "Error"
           /\ StartsWith(result'.exc.msg, <<"Source", " ">> \o call'.source.path)
           /\ events' = <<>>
           /\ sinkfile' = sinkfile
           /\ tarfiles' = tarfiles)]_vars

\* such a call, made when the first child process would have failed
C3_Witness ==
    /\ call.op = "transfer"
    /\ call.source.kind = "file"
    /\ call.jobs = 4
    /\ call.orc.at = 1
    /\ result.exc.type = "Error"
    /\ events = <<>>

(***************************************************************************)
(* C4: when the archive builder returned an archive, a successful transfer  *)
(* does exactly this, in this order: create the destination directory,      *)
(* build the archive, stream the archive to <destination>/<archive name>,   *)
(* extract it on the target, delete it on the target, delete the local      *)
(* archive; no file of the source tree is streamed.                          *)
(***************************************************************************)
C4_BulkSequence ==
    (/\ call.op = "transfer"
     /\ call.source.kind = "dir"
     /\ Self.archiving_mode.name # "None"
     /\ call.tarres # NoFile
     /\ result.exc.type = "none")
    => LET arch == path_join(call.destination, basename(call.tarres))
       IN /\ Len(Steps) = 6
          /\ Steps[1].ev = "popen" /\ Steps[1].stdin = NoFile
          /\ Contains(Last(Steps[1].argv),
                      <<"mkdir", " ", "-p", " ">> \o quote(call.destination))
          /\ Steps[2].ev = "tar" /\ Steps[2].tarpath = call.tarres
          /\ Steps[2].source = call.source.path
          /\ Steps[3].ev = "popen" /\ Steps[3].stdin = call.tarres
          /\ Last(Steps[3].argv) = <<"cat", " ", ">">> \o quote(arch)
          /\ Steps[4].ev = "popen" /\ Steps[4].stdin = NoFile
          /\ StartsWith(Last(Steps[4].argv),
                        <<"tar", " ", "-x", " ", "-f", " ">> \o quote(arch))
          /\ Steps[5].ev = "popen" /\ Steps[5].stdin = NoFile
          /\ Last(Steps[5].argv) = <<"rm", " ", "-f", " ">> \o quote(arch)
          /\ Steps[6].ev = "os.remove" /\ Steps[6].path = call.tarres

\* a bulk transfer of a tree that holds a file and a directory has succeeded
C4_Witness ==
    /\ call.op = "transfer"
    /\ call.source.kind = "dir"
    /\ DOMAIN call.source.tree = {<<<<"a">>>>, <<<<"d">>>>}
    /\ call.source.tree[<<<<"a">>>>].kind = "file"
    /\ call.tarres # NoFile
    /\ result.exc.type = "none"
    /\ Len(Steps) = 6

(***************************************************************************)
(* C5: when archiving is disabled or the archive builder declines, a        *)
(* successful transfer of a directory streams every regular file of the     *)
(* tree, whatever its depth and name, exactly once to the same relative     *)
(* path below the destination: N files, N streams, no archive operation.    *)
(***************************************************************************)
C5_EveryFileStreamedOnce ==
    (/\ call.op = "transfer"
     /\ call.source.kind = "dir"
     /\ call.tarres = NoFile
     /\ result.exc.type = "none")
    => /\ Len(Streams) = Cardinality(FilesOf(call.source))
       /\ \A rel \in FilesOf(call.source) :
             Cardinality({i \in 1..Len(Streams) :
                 /\ Streams[i].stdin = local_path(call.source, rel)
                 /\ Contains(Last(Streams[i].argv),
                        <<"cat", " ", ">">> \o
                        quote(remote_path(call.destination, rel)))}) = 1
       /\ \A i \in 1..Len(events) : events[i].ev \notin {"tar", "os.remove"}

(***************************************************************************)
(* C6: however a call of the invocation primitive ends, every default sink  *)
(* it opened is closed, and no sink supplied by the caller is closed.        *)
(***************************************************************************)
C6_OpenedSinksClosed ==
    IsCall => \A f \in SinkFiles : Count("close", f) = Count("open", f)

(***************************************************************************)
(* C7: when the child of run cannot be launched or exits non-zero, run      *)
(* raises the execution error carrying the rendered command line; when the  *)
(* child exits 0 with return_output and undecodable stdout, run raises the  *)
(* decode error carrying that command; nothing else escapes, nothing is     *)
(* returned.                                                                 *)
(***************************************************************************)
C7_FailuresBecomeErrors ==
    (call.op = "run" /\ Len(Popens) = 1)
    => LET argv == Popens[1].argv
           kind == Popens[1].oc
       IN /\ kind \in {"oserr0", "oserr1", "oserr2", "exit1"}
                => /\ result.exc.type = "Error"
                   /\ StartsWith(result.exc.msg, join(argv))
                   /\ ~result.val.some
          /\ (kind = "exit0" /\ call.return_output /\ ~IsText(call.orc.out))
                => /\ result.exc.type = "DecodeError"
                   /\ result.exc.command = argv
                   /\ ~result.val.some

(***************************************************************************)
(* C8: the last argument of an invocation by run is the command unchanged   *)
(* (a str verbatim, a list joined with shell quoting) when env is None or   *)
(* empty; otherwise it is "/bin/sh -c " followed by the shell-quoted text   *)
(* "export N1=V1 N2=V2 ...; <command>", each non-empty value shell-quoted,  *)
(* each empty value rendered as nothing.                                     *)
(***************************************************************************)
C8_Assignments(items) ==
    Flatten([i \in 1..Len(items) |->
        <<" ">> \o items[i][1] \o <<"=">> \o
        (IF items[i][2] = <<>> THEN <<>> ELSE quote(items[i][2]))])

C8_Expected(command, env) ==
    LET text == IF command.islist
                THEN JoinWith(<<" ">>, [i \in 1..Len(command.v) |-> quote(command.v[i])])
                ELSE command.v
    IN IF env.none \/ env.items = <<>> THEN text
       ELSE <<"/bin/sh", " ", "-c", " ">>
            \o quote(<<"export">> \o C8_Assignments(env.items) \o <<";", " ">> \o text)

C8_EnvRendering ==
    call.op = "run" =>
        \A i \in 1..Len(Popens) :
            /\ Last(Popens[i].argv) = C8_Expected(call.command, call.env)
            /\ (/\ call.env.items = <<<<<<"A">>, <<"1">>>>, <<<<"B">>, <<>>>>>>
                /\ call.command = ListCmd(<<<<"ls">>, <<"/", "etc">>>>))
               => Last(Popens[i].argv) =
                      <<"/bin/sh", " ", "-c", " ", "'", "export", " ", "A", "=", "1",
                        " ", "B", "=", ";", " ", "ls", " ", "/", "etc", "'">>

\* run has launched a child with an env that holds an empty value
C8_Witness ==
    /\ call.op = "run"
    /\ Len(Popens) = 1
    /\ call.command.islist
    /\ \E i \in 1..Len(call.env.items) : call.env.items[i][2] = <<>>

(***************************************************************************)
(* C9: once the archive of a transfer is built: a successful transfer has   *)
(* deleted the remote archive and the local archive file; a failure of the  *)
(* archive stream, of the extraction or of the remote removal makes         *)
(* transfer raise with the local archive file still present and without     *)
(* any file of the tree being streamed.                                      *)
(***************************************************************************)
C9_ArchiveCleanup ==
    (call.op = "transfer" /\ TarBuilt)
    => LET arch == path_join(call.destination, basename(call.tarres))
       IN /\ call.orc.at \in 2..4 => result.exc.type # "none"
          /\ result.exc.type = "none"
                => /\ call.tarres \notin tarfiles
                   /\ \E i \in 1..Len(Popens) :
                         /\ Popens[i].oc = "exit0"
                         /\ Last(Popens[i].argv) = <<"rm", " ", "-f", " ">> \o quote(arch)
          /\ result.exc.type # "none"
                => /\ call.tarres \in tarfiles
                   /\ \A i \in 1..Len(Streams) : Streams[i].stdin = call.tarres
                   /\ \A i \in 1..Len(events) : events[i].ev # "os.remove"

\* the extraction failed after the archive of a non-empty tree was streamed
C9_Witness ==
    /\ call.op = "transfer"
    /\ TarBuilt
    /\ call.orc.at = 3
    /\ FilesOf(call.source) # {}
    /\ Len(Popens) = 3
    /\ result.exc.type = "Error"
    /\ call.tarres \in tarfiles

(***************************************************************************)
(* C10: in create_files_dirs and in transfer, the command that fails is the *)
(* last one the call begins: it is not issued again, no later command is    *)
(* issued, and the call raises.                                              *)
(***************************************************************************)
C10_FailFast ==
    call.op \in {"create_files_dirs", "transfer"}
    => /\ \A i \in 1..Len(Popens) :
             Popens[i].oc # "exit0" => (i = Len(Popens) /\ result.exc.type # "none")
       /\ call.orc.at \in 1..Begun
             => (Begun = call.orc.at /\ result.exc.type # "none")

\* the first of the three commands of create_files_dirs has failed
C10_Witness ==
    /\ call.op = "create_files_dirs"
    /\ call.orc.at = 1
    /\ call.orc.kind = "exit1"
    /\ Len(Popens) = 1
    /\ result.exc.type = "Error"

(***************************************************************************)
(* C11: a successful create_files_dirs issues exactly three commands, in    *)
(* this order: rm -r -f of the base directory, mkdir -p of it under umask   *)
(* 0077 followed by chmod 700, mkdir -p of its conf subdirectory; run on    *)
(* any target filesystem (base absent, a file, a directory with content)    *)
(* they succeed and leave the base directory with mode 0700 holding         *)
(* exactly an empty conf directory, and running them again changes          *)
(* nothing.  The command of remove_files_dirs succeeds on the target        *)
(* whether or not the base directory exists.                                *)
(***************************************************************************)
Dir(mode) == [kind |-> "dir", mode |-> mode]

File(mode) == [kind |-> "file", mode |-> mode]

\* filesystems of the target before the call
TargetStates(base) ==
    {<<>>,
     (dirname(base) :> Dir(493)) @@ (base :> File(420)),
     (dirname(base) :> Dir(493)) @@ (base :> Dir(511)),
     (dirname(base) :> Dir(493)) @@ (base :> Dir(493))
        @@ (path_join(base, <<"x">>) :> File(420))
        @@ (path_join(base, <<"conf">>) :> Dir(511))
        @@ (path_join(path_join(base, <<"conf">>), <<"old">>) :> File(384))
        @@ (path_join(base, <<"object">>) :> Dir(493))}

\* umasks of the login shell on the target
TargetUmasks == {0, 18, 63}

\* the command lines of the call, in the order of their launch
Lines == [i \in 1..Len(Popens) |-> Last(Popens[i].argv)]

C11_TreeLines(base) ==
    <<<<"rm", " ", "-r", " ", "-f", " ">> \o quote(base),
      <<"umask", " ", "0", "0", "7", "7", ";", " ", "mkdir", " ", "-p", " ">>
          \o quote(base)
          \o <<" ", "&", "&", " ", "chmod", " ", "7", "0", "0", " ">> \o quote(base),
      <<"mkdir", " ", "-p", " ">> \o quote(path_join(base, <<"conf">>))>>

C11_WorkingTree ==
    /\ (call.op = "create_files_dirs" /\ ~Raised(result)) =>
          /\ Lines = C11_TreeLines(Self.base_path)
          /\ \A fs \in TargetStates(Self.base_path), um \in TargetUmasks :
                LET base == Self.base_path
                    conf == path_join(base, <<"conf">>)
                    once == target_run(fs, um, Lines)
                IN /\ once.status = 0
                   /\ base \in DOMAIN once.fs
                   /\ once.fs[base] = Dir(448)
                   /\ Below(once.fs, base) = {conf}
                   /\ once.fs[conf].kind = "dir"
                   /\ target_run(once.fs, um, Lines) = once
    /\ call.op = "remove_files_dirs" =>
          /\ Len(Lines) <= 1
          /\ \A i \in 1..Len(Lines) :
                \A fs \in TargetStates(Self.base_path), um \in TargetUmasks :
                   LET gone == target_sh(fs, um, Lines[i])
                   IN /\ gone.status = 0
                      /\ Self.base_path \notin DOMAIN gone.fs
                      /\ Below(gone.fs, Self.base_path) = {}

\* a successful create_files_dirs
C11_Witness ==
    /\ call.op = "create_files_dirs"
    /\ ~Raised(result)
    /\ Len(Popens) = 3

(***************************************************************************)
(* C12: for every argument list passed to run, with any env, splitting the  *)
(* remote command string yields exactly the original list of arguments.     *)
(***************************************************************************)
C12_RoundTrip ==
    (call.op = "run" /\ call.command.islist) =>
        \A i \in 1..Len(Lines) : split(Lines[i]) = call.command.v

(***************************************************************************)
(* C12, amended: with env None or empty, splitting the remote command       *)
(* string yields exactly the original list; with a non-empty env it yields  *)
(* "/bin/sh", "-c" and one script, and splitting the script after its       *)
(* "export ...; " prefix yields exactly the original list.                  *)
(***************************************************************************)
C12_RoundTripInsideWrapper ==
    (call.op = "run" /\ call.command.islist) =>
        \A i \in 1..Len(Lines) :
            IF call.env.none \/ call.env.items = <<>>
            THEN split(Lines[i]) = call.command.v
            ELSE LET words == split(Lines[i])
                     prefix == <<"export">> \o C8_Assignments(call.env.items)
                               \o <<";", " ">>
                 IN /\ Len(words) = 3
                    /\ words[1] = <<"/bin/sh">>
                    /\ words[2] = <<"-c">>
                    /\ StartsWith(words[3], prefix)
                    /\ split(SubSeq(words[3], Len(prefix) + 1, Len(words[3])))
                          = call.command.v

\* a list with a quote character and an empty argument, run with an env
C12_Witness ==
    /\ call.op = "run"
    /\ call.command.islist
    /\ Len(Lines) = 1
    /\ call.env.items # <<>>
    /\ \E i \in 1..Len(call.command.v) : call.command.v[i] = <<>>
    /\ \E i \in 1..Len(call.command.v) :
          \E j \in 1..Len(call.command.v[i]) : call.command.v[i][j] = "'"

(***************************************************************************)
(* C13: every child process an Executor launches sees in its environment    *)
(* __target_host, __target_hostname and __target_fqdn equal to that         *)
(* Executor's identity triple and __remote_exec equal to that Executor's    *)
(* serialized template, whatever Executors were constructed before.         *)
(***************************************************************************)
C13_OwnEnvironment ==
    IsCall =>
        \A i \in 1..Len(Popens) :
            /\ Popens[i].env.target_host = Self.target_host[1]
            /\ Popens[i].env.target_hostname = Self.target_host[2]
            /\ Popens[i].env.target_fqdn = Self.target_host[3]
            /\ Popens[i].env.remote_exec = join(Self.exec)

(***************************************************************************)
(* C14: whenever the child of run exits with status 0: with return_output   *)
(* run returns the child's stdout decoded as text; without it run returns   *)
(* nothing and raises no error, whatever bytes this child or earlier        *)
(* children wrote to the stdout and stderr sinks.                           *)
(***************************************************************************)
C14_ExitZero ==
    (call.op = "run" /\ Len(Popens) = 1 /\ Popens[1].oc = "exit0") =>
        IF call.return_output
        THEN IsText(call.orc.out) =>
                result = [exc |-> NoExc, val |-> [some |-> TRUE, v |-> call.orc.out]]
        ELSE result = [exc |-> NoExc, val |-> NoVal]

(***************************************************************************)
(* C15: with a umask u, mkdir runs "umask <u as 4 octal digits>; mkdir -p   *)
(* <quoted path> && chmod <mode> <quoted path>" where mode is 0o777 with    *)
(* every bit of u cleared (755 for u = 0o022); with a umask u, the stream   *)
(* of a single file ends in a chmod whose mode is the source file's         *)
(* permission bits with every bit of u cleared; in both cases mode and u    *)
(* share no bit; without a umask the command has no umask and no chmod      *)
(* part.                                                                    *)
(***************************************************************************)
C15_Bit(n, i) == (n \div 2^i) % 2

C15_Digits(word) == \A i \in 1..Len(word) : \E d \in 1..8 : word[i] = OctDigit[d]

\* the octal numeral `word` is `from` with every bit of u cleared
C15_Cleared(word, from, u) ==
    /\ word # <<>>
    /\ C15_Digits(word)
    /\ Len(word) > 1 => word[1] # "0"
    /\ \A i \in 0..12 :
          /\ C15_Bit(OctVal(word), i) =
                (IF C15_Bit(u, i) = 1 THEN 0 ELSE C15_Bit(from, i))
          /\ ~(C15_Bit(OctVal(word), i) = 1 /\ C15_Bit(u, i) = 1)

\* the numeral of a "umask NNNN;" word
C15_Mask(word, u) ==
    LET digits == SubSeq(word, 1, Len(word) - 1)
    IN /\ word # <<>>
       /\ word[Len(word)] = ";"
       /\ Len(digits) = (IF u < 4096 THEN 4 ELSE OctLen(u))
       /\ C15_Digits(digits)
       /\ OctVal(digits) = u

C15_UmaskNumerics ==
    /\ (call.op = "mkdir" /\ Len(Lines) = 1) =>
          LET words == split(Lines[1])
              made == <<"mkdir", " ", "-p", " ">> \o quote(call.path)
          IN IF call.umask = NoUmask
             THEN /\ Lines[1] = made
                  /\ ~Contains(Lines[1], <<"umask">>)
                  /\ ~Contains(Lines[1], <<"chmod">>)
             ELSE /\ Len(words) = 9
                  /\ C15_Mask(words[2], call.umask)
                  /\ C15_Cleared(words[8], 511, call.umask)
                  /\ call.umask = 18 => words[8] = <<"7", "5", "5">>
                  /\ Lines[1] = <<"umask", " ">> \o words[2] \o <<" ">> \o made
                                \o <<" ", "&", "&", " ", "chmod", " ">>
                                \o words[8] \o <<" ">> \o quote(call.path)
    /\ (call.op = "transfer" /\ call.source.kind = "file" /\ Len(Streams) = 1) =>
          LET line == Last(Streams[1].argv)
              words == split(line)
          IN IF call.umask = NoUmask
             THEN ~Contains(line, <<"umask">>) /\ ~Contains(line, <<"chmod">>)
             ELSE /\ Len(words) = 8
                  /\ words[1] = <<"umask">>
                  /\ C15_Mask(words[2], call.umask)
                  /\ words[6] = <<"chmod">>
                  /\ C15_Cleared(words[7], call.source.mode, call.umask)

\* a file whose permission bits meet the umask has been streamed
C15_Witness ==
    /\ call.op = "transfer"
    /\ call.source.kind = "file"
    /\ Len(Streams) = 1
    /\ call.umask = 18
    /\ call.source.mode = 4095

(***************************************************************************)
(* C16: after a successful invocation through the default sinks, the sink   *)
(* contents have been read back and logged, the stderr sink strictly        *)
(* before the stdout sink, each entry tagged with the command line of the   *)
(* invocation; after an invocation that raised for an execution error or    *)
(* for the decoding of the returned output, nothing has been logged.        *)
(***************************************************************************)
Logs == SelectSeq(events, LAMBDA x : x.ev = "log")

C16_LogsAfterSuccessOnly ==
    (call.op = "run" /\ call.stdout = NoFile /\ call.stderr = NoFile) =>
        /\ ~Raised(result) =>
              /\ Len(Popens) = 1
              /\ Len(Logs) = (IF call.return_output THEN 1 ELSE 2)
              /\ Logs[1].prefix = <<"Remote stderr">>
              /\ Logs[1].text = sinkfile[path_join(Self.stderr_base_path, <<"remote">>)]
              /\ ~call.return_output =>
                    /\ Logs[2].prefix = <<"Remote stdout">>
                    /\ Logs[2].text =
                          sinkfile[path_join(Self.stdout_base_path, <<"remote">>)]
              /\ \A i \in 1..Len(Logs) : Logs[i].command = Popens[1].argv
              /\ \A i \in 1..Len(events) :
                    events[i].ev = "log" =>
                        \E j \in 1..(i - 1) : events[j].ev = "popen"
        /\ (\/ result.exc.type \in {"Error", "IndexError"}
            \/ /\ result.exc.type = "DecodeError"
               /\ call.return_output
               /\ ~IsText(call.orc.out))
           => Logs = <<>>

\* a child has written to both default sinks, exited 0, and run has returned
C16_Witness ==
    /\ call.op = "run"
    /\ ~call.return_output
    /\ ~Raised(result)
    /\ call.orc.out # <<>>
    /\ call.orc.err # <<>>
    /\ Len(Logs) = 2

(***************************************************************************)
(* C17: resolve_conf_dirs of any number of sequences is a list that holds   *)
(* every element of their concatenation exactly once, in the order of the   *)
(* elements' first occurrences in the concatenation; applied to its own     *)
(* result it returns the same list.                                         *)
(***************************************************************************)
C17_FirstOccurrences ==
    call.op = "resolve_conf_dirs" =>
        LET given == {<<i, j>> : i \in 1..Len(call.args), j \in 1..(MaxDirs + 1)}
            at == {p \in given : p[2] <= Len(call.args[p[1]])}
            elems == {call.args[p[1]][p[2]] : p \in at}
            before(p, q) == p[1] < q[1] \/ (p[1] = q[1] /\ p[2] < q[2])
            first(x) == CHOOSE p \in at :
                           /\ call.args[p[1]][p[2]] = x
                           /\ \A q \in at : call.args[q[1]][q[2]] = x =>
                                 (q = p \/ before(p, q))
            out == result.val.v
        IN /\ \A x \in elems : Cardinality({i \in 1..Len(out) : out[i] = x}) = 1
           /\ \A i \in 1..Len(out) : out[i] \in elems
           /\ \A i, j \in 1..Len(out) : i < j => before(first(out[i]), first(out[j]))
           /\ resolve_conf_dirs(<<out>>) = out

\* an element given again in a later list after another element
C17_Witness ==
    /\ call.op = "resolve_conf_dirs"
    /\ Len(call.args) = 2
    /\ call.args[1] = <<<<"/", "a">>, <<"/", "b">>>>
    /\ call.args[2] = <<<<"/", "b">>, <<"/", "a">>>>
    /\ result.val.v = <<<<"/", "a">>, <<"/", "b">>>>

(***************************************************************************)
(* C18: on the plain path of a directory transfer, when a file is streamed  *)
(* to a remote path, the remote directory that contains that path has been  *)
(* created by an earlier mkdir of the same transfer (the destination        *)
(* first, each subdirectory before any of its entries); and with a umask,   *)
(* every mkdir command and every stream command of the transfer carries     *)
(* that umask.                                                              *)
(***************************************************************************)
\* the words of a command line after its "umask NNNN;" part, if it has one
C18_Body(line) ==
    LET words == split(line)
    IN IF words # <<>> /\ words[1] = <<"umask">>
       THEN SubSeq(words, 3, Len(words)) ELSE words

\* the directory a mkdir command line creates, <<>> for another command
C18_Made(line) ==
    LET body == C18_Body(line)
    IN IF Len(body) >= 3 /\ body[1] = <<"mkdir">> /\ body[2] = <<"-p">>
       THEN body[3] ELSE <<>>

\* the remote file a stream command line writes, <<>> for another command
C18_Written(line) ==
    LET body == C18_Body(line)
    IN IF Len(body) >= 2 /\ body[1] = <<"cat">> /\ body[2] # <<>> /\ body[2][1] = ">"
       THEN Tail(body[2]) ELSE <<>>

C18_DirectoriesFirst ==
    (call.op = "transfer" /\ call.source.kind = "dir" /\ ~TarBuilt) =>
        /\ Len(Popens) >= 1 => C18_Made(Lines[1]) = call.destination
        /\ \A i \in 1..Len(Popens) :
              /\ Popens[i].stdin # NoFile =>
                    /\ C18_Written(Lines[i]) # <<>>
                    /\ \E j \in 1..(i - 1) :
                          /\ Popens[j].stdin = NoFile
                          /\ C18_Made(Lines[j]) # <<>>
                          /\ rstrip_slash(C18_Made(Lines[j]))
                                = dirname(C18_Written(Lines[i]))
              /\ (Popens[i].stdin = NoFile /\ i > 1) =>
                    /\ C18_Made(Lines[i]) # <<>>
                    /\ \E j \in 1..(i - 1) :
                          /\ C18_Made(Lines[j]) # <<>>
                          /\ rstrip_slash(C18_Made(Lines[j]))
                                = dirname(C18_Made(Lines[i]))
              /\ IF call.umask = NoUmask
                 THEN ~Contains(Lines[i], <<"umask">>)
                 ELSE LET words == split(Lines[i])
                      IN /\ words[1] = <<"umask">>
                         /\ Len(words[2]) = 5
                         /\ words[2][5] = ";"
                         /\ OctVal(SubSeq(words[2], 1, 4)) = call.umask

\* the destination and a subdirectory made, then a file of the
\* subdirectory streamed, all under a umask
C18_Witness ==
    /\ call.op = "transfer"
    /\ ~TarBuilt
    /\ call.umask # NoUmask
    /\ Len(Popens) = 3
    /\ Popens[2].stdin = NoFile
    /\ Popens[3].stdin # NoFile
    /\ ~Raised(result)

(***************************************************************************)
(* C19: for every archive path and every archiving mode, with or without    *)
(* extraction options, the remote extraction command names as its target    *)
(* directory the parent directory of the archive path, which in a bulk      *)
(* transfer is the destination directory of the transfer, and "-C <dir>"    *)
(* is the last pair of arguments of the tar command.                        *)
(***************************************************************************)
\* "-C", the parent directory of path, is the last pair of the tar command
C19_Extracts(line, path) ==
    LET words == split(line)
        n == Len(words)
    IN /\ n >= 6
       /\ words[1] = <<"tar">>
       /\ SubSeq(words, 3, 4) = <<<<"-f">>, path>>
       /\ words[n - 1] = <<"-C">>
       /\ words[n] = dirname(path)

C19_TargetDirectoryLast ==
    /\ (call.op = "extract_archive" /\ Len(Lines) = 1) =>
          C19_Extracts(Lines[1], call.path)
    /\ (call.op = "transfer" /\ TarBuilt /\ Len(Lines) >= 3) =>
          /\ C19_Extracts(Lines[3], path_join(call.destination, basename(call.tarres)))
          /\ rstrip_slash(dirname(path_join(call.destination, basename(call.tarres))))
                = rstrip_slash(call.destination)

(***************************************************************************)
(* C20: for successive successful invocations of one Executor through the   *)
(* default sinks, the content logged as "Remote stderr" / "Remote stdout"   *)
(* for an invocation is exactly what the child of that invocation wrote to  *)
(* that stream, never output of an earlier invocation.                      *)
(***************************************************************************)
C20_OwnOutputLogged ==
    (call.op = "run" /\ call.stdout = NoFile /\ call.stderr = NoFile
        /\ ~Raised(result)) =>
        \A i \in 1..Len(Logs) :
            Logs[i].text = (IF Logs[i].prefix = <<"Remote stderr">>
                            THEN call.orc.err ELSE call.orc.out)

====
